---------------------------- MODULE Spec2Model ----------------------------
(***************************************************************************)
(* Model of cryptfs_hw.c: the hardware disk-encryption key shim that       *)
(* forwards create / update / wipe key requests to the QSEECom library.    *)
(*                                                                         *)
(* C strings are sequences of byte codes that hold their terminating 0;    *)
(* a `const char *` argument is a record [null, mem].  A heap buffer is a  *)
(* record [st, bytes] with st in {"null", "live", "freed"}; the bytes of a *)
(* freed buffer are what free() left in memory.                            *)
(***************************************************************************)
EXTENDS Integers, Sequences, FiniteSets, TLC

(***************************************************************************)
(* Program constants (#define lines of cryptfs_hw.c)                       *)
(***************************************************************************)
ERR_MAX_PASSWORD_ATTEMPTS == -10
MAX_PASSWORD_LEN == 32
QTI_ICE_STORAGE_UFS == 1
QTI_ICE_STORAGE_SDCC == 2
SET_HW_DISK_ENC_KEY == 1
UPDATE_HW_DISK_ENC_KEY == 2
CRYPTFS_HW_UP_CHECK_COUNT == 100
CRYPTFS_HW_UPDATE_KEY_FAILED == -9
CRYPTFS_HW_WIPE_KEY_FAILED == -8
CRYPTFS_HW_CREATE_KEY_FAILED == -7
CRYPTFS_HW_KM_USAGE_DISK_ENCRYPTION == 1
CRYPTFS_HW_KM_USAGE_UFS_ICE_DISK_ENCRYPTION == 3
CRYPTFS_HW_KM_USAGE_SDCC_ICE_DISK_ENCRYPTION == 4
\* cutils/properties.h: the size of the buffer property_get fills
PROPERTY_VALUE_MAX == 92
\* hardware/keymaster_common.h: HARDWARE_MODULE_API_VERSION(0, 3)
KEYMASTER_MODULE_API_VERSION_0_3 == 3

(***************************************************************************)
(* Bounds of the model                                                     *)
(***************************************************************************)
\* the longest password a caller passes (longer than MAX_PASSWORD_LEN)
MaxPasswdLen == 33

(***************************************************************************)
(* String literals of the source, as NUL-terminated byte sequences         *)
(***************************************************************************)
\* "aes-xts"
LIT_AES_XTS == <<97, 101, 115, 45, 120, 116, 115, 0>>
\* "true"
LIT_TRUE == <<116, 114, 117, 101, 0>>
\* "ufs"
LIT_UFS == <<117, 102, 115, 0>>
\* "sdhc"
LIT_SDHC == <<115, 100, 104, 99, 0>>

(***************************************************************************)
(* libc                                                                    *)
(***************************************************************************)
RECURSIVE strlen_from(_, _)
strlen_from(s, k) == IF s[k] = 0 THEN k - 1 ELSE strlen_from(s, k + 1)

\* strlen(s): the number of bytes before the first 0
strlen(s) == strlen_from(s, 1)

RECURSIVE strnlen_from(_, _, _)
strnlen_from(s, maxlen, k) ==
    IF k > maxlen THEN maxlen
    ELSE IF s[k] = 0 THEN k - 1
    ELSE strnlen_from(s, maxlen, k + 1)

\* strnlen(s, maxlen): reads at most maxlen bytes of s
strnlen(s, maxlen) == strnlen_from(s, maxlen, 1)

RECURSIVE strncmp_from(_, _, _, _)
strncmp_from(a, b, n, k) ==
    IF k > n THEN 0
    ELSE IF a[k] # b[k] THEN a[k] - b[k]
    ELSE IF a[k] = 0 THEN 0
    ELSE strncmp_from(a, b, n, k + 1)

\* strncmp(a, b, n): the difference of the first bytes that differ, 0 if
\* none differs before a terminator or within n bytes
strncmp(a, b, n) == strncmp_from(a, b, n, 1)

RECURSIVE strcmp_from(_, _, _)
strcmp_from(a, b, k) ==
    IF a[k] # b[k] THEN a[k] - b[k]
    ELSE IF a[k] = 0 THEN 0
    ELSE strcmp_from(a, b, k + 1)

strcmp(a, b) == strcmp_from(a, b, 1)

RECURSIVE match_at(_, _, _, _)
\* whether needle (from its byte k on) matches haystack at offset pos
match_at(h, n, pos, k) ==
    IF n[k] = 0 THEN TRUE
    ELSE IF h[pos + k] = 0 \/ h[pos + k] # n[k] THEN FALSE
    ELSE match_at(h, n, pos, k + 1)

RECURSIVE strstr_from(_, _, _)
strstr_from(h, n, pos) ==
    IF match_at(h, n, pos, 1) THEN pos + 1
    ELSE IF h[pos + 1] = 0 THEN 0
    ELSE strstr_from(h, n, pos + 1)

\* strstr(haystack, needle): the 1-based position of the first occurrence,
\* 0 for the NULL result
strstr(h, n) == strstr_from(h, n, 0)

\* memcpy(dst, src, n)
memcpy(dst, src, n) ==
    [k \in 1..Len(dst) |-> IF k <= n THEN src[k] ELSE dst[k]]

\* secure_memset(v, c, n): n volatile byte stores
secure_memset(v, c, n) ==
    [k \in 1..Len(v) |-> IF k <= n THEN c ELSE v[k]]

(***************************************************************************)
(* Values                                                                  *)
(***************************************************************************)
\* a NULL `const char *`
NULL == [null |-> TRUE, mem |-> <<0>>]
Ptr(m) == [null |-> FALSE, mem |-> m]
\* no buffer: the NULL result of get_tmp_passwd
NullBuf == [st |-> "null", bytes |-> <<>>]
Zeros(n) == [k \in 1..n |-> 0]

\* password of n bytes 'A', 'B', ...
PwMem(n) == [k \in 1..n |-> 64 + k] \o <<0>>
PasswdLens == {1, MAX_PASSWORD_LEN - 1, MAX_PASSWORD_LEN, MaxPasswdLen}
\* "xy" in a buffer that holds other bytes after its terminator
PwShort == Ptr(<<120, 121, 0, 122, 122, 0>>)
\* the passwords a caller passes: NULL, the lengths around the buffer size,
\* and the short one
Passwords == {NULL, PwShort} \cup {Ptr(PwMem(n)) : n \in PasswdLens}
\* the old passwords a caller passes to an update
OldPasswords == {NULL, PwShort, Ptr(PwMem(MaxPasswdLen))}

\* what malloc may hand out: memory of any earlier content
Garbage == {[k \in 1..MAX_PASSWORD_LEN |-> 170], Zeros(MAX_PASSWORD_LEN)}

\* encryption modes: NULL, "aes-xts", "aes-xts" in a larger buffer, "",
\* "aes-xt", "aes-xts-plain64", "AES-XTS", "aes-cbc"
Modes ==
    { NULL,
      Ptr(LIT_AES_XTS),
      Ptr(<<97, 101, 115, 45, 120, 116, 115, 0, 113, 0>>),
      Ptr(<<0>>),
      Ptr(<<97, 101, 115, 45, 120, 116, 0>>),
      Ptr(<<97, 101, 115, 45, 120, 116, 115, 45, 112, 108, 97, 105, 110, 54, 52, 0>>),
      Ptr(<<65, 69, 83, 45, 88, 84, 83, 0>>),
      Ptr(<<97, 101, 115, 45, 99, 98, 99, 0>>) }

\* values of sys.keymaster.loaded: "" (unset), "true", "false", "tru",
\* "true1", "1"
ReadyValues ==
    { <<0>>, LIT_TRUE, <<102, 97, 108, 115, 101, 0>>, <<116, 114, 117, 0>>,
      <<116, 114, 117, 101, 49, 0>>, <<49, 0>> }

\* values of ro.boot.bootdevice: "" (unset), "ufs", "sdhc", "1d84000.ufshc",
\* "7824900.sdhci", "sdhc.ufs", "mmc", "uf.sdh"
BootDevices ==
    { <<0>>, LIT_UFS, LIT_SDHC,
      <<49, 100, 56, 52, 48, 48, 48, 46, 117, 102, 115, 104, 99, 0>>,
      <<55, 56, 50, 52, 57, 48, 48, 46, 115, 100, 104, 99, 105, 0>>,
      <<115, 100, 104, 99, 46, 117, 102, 115, 0>>,
      <<109, 109, 99, 0>>,
      <<117, 102, 46, 115, 100, 104, 0>> }

\* the modes the key operations are called with: NULL, "aes-xts", "aes-xt",
\* "aes-xts-plain64"
KeyModes ==
    { NULL,
      Ptr(LIT_AES_XTS),
      Ptr(<<97, 101, 115, 45, 120, 116, 0>>),
      Ptr(<<97, 101, 115, 45, 120, 116, 115, 45, 112, 108, 97, 105, 110, 54, 52, 0>>) }

\* the signals is_ice_enabled reads
Envs == [metadata : BOOLEAN, bootdevice : BootDevices, icesdcc : BOOLEAN]
NoEnv == [metadata |-> FALSE, bootdevice |-> <<0>>, icesdcc |-> FALSE]
\* the devices the key operations run on: UFS, UFS with a metadata
\* partition, eMMC with and without /dev/icesdcc
KeyEnvs ==
    { [metadata |-> FALSE, bootdevice |-> LIT_UFS, icesdcc |-> FALSE],
      [metadata |-> TRUE, bootdevice |-> LIT_UFS, icesdcc |-> TRUE],
      [metadata |-> FALSE, bootdevice |-> LIT_SDHC, icesdcc |-> TRUE],
      [metadata |-> FALSE, bootdevice |-> LIT_SDHC, icesdcc |-> FALSE] }

\* what the TEE primitives return: max attempts, failures, success, a key
\* index
Statuses == {ERR_MAX_PASSWORD_ATTEMPTS, CRYPTFS_HW_WIPE_KEY_FAILED, 0, 2}

\* hw_get_module_by_class: 0, or -ENOENT / -EINVAL
ModuleRcs == {0, -2, -22}
\* module_api_version: 0.2, 0.3, 1.0, 2.0
ApiVersions == {2, KEYMASTER_MODULE_API_VERSION_0_3, 256, 512}

(***************************************************************************)
(* State                                                                   *)
(***************************************************************************)
VARIABLES
    loaded_library,      \* static int loaded_library
    qseecom_create_key,  \* the function pointers: "unset" (NULL), "valid",
    qseecom_update_key,  \*   or "dangling" (resolved from a handle that
    qseecom_wipe_key,    \*   was closed since)
    handles,             \* library handles open (dlopen without dlclose)
    pc,                  \* where the running call is: "idle" between calls
    i,                   \* is_qseecom_up's loop counter while it runs
    call,                \* the running / last call and its arguments
    tmp_passwd,          \* set_key's buffers
    tmp_currentpasswd,
    usage,               \* map_usage's result for the running key call
    storage_type,        \* is_ice_enabled's result inside map_usage
    ret,                 \* the last call's return value (0 while one runs)
    polled,              \* whether the call read sys.keymaster.loaded
    waited,              \* the reads made by a wait of the call that timed out
    saw_true,            \* whether a read of the call found "true"
    dlopens,             \* dlopen calls during the call
    dlsyms,              \* dlsym calls during the call
    dlcloses,            \* dlclose calls during the call
    prims,               \* TEE primitives invoked during the call
    attempt,             \* outcome of the call's load attempt
    failed_before        \* an earlier load attempt failed

vars == <<loaded_library, qseecom_create_key, qseecom_update_key,
          qseecom_wipe_key, handles, pc, i, call, tmp_passwd,
          tmp_currentpasswd, usage, storage_type, ret, polled, waited, saw_true,
          dlopens, dlsyms, dlcloses, prims, attempt, failed_before>>

lib == <<loaded_library, qseecom_create_key, qseecom_update_key,
         qseecom_wipe_key, handles>>

NoCall == [op |-> "none", passwd |-> NULL, currentpasswd |-> NULL,
           enc_mode |-> NULL, env |-> NoEnv, rc |-> 0, version |-> 0]

Init ==
    /\ loaded_library = 0
    /\ qseecom_create_key = "unset"
    /\ qseecom_update_key = "unset"
    /\ qseecom_wipe_key = "unset"
    /\ handles = 0
    /\ pc = "idle"
    /\ i = 0
    /\ call = NoCall
    /\ tmp_passwd = NullBuf
    /\ tmp_currentpasswd = NullBuf
    /\ usage = 0
    /\ storage_type = 0
    /\ ret = 0
    /\ polled = FALSE
    /\ waited = 0
    /\ saw_true = FALSE
    /\ dlopens = 0
    /\ dlsyms = 0
    /\ dlcloses = 0
    /\ prims = <<>>
    /\ attempt = "none"
    /\ failed_before = FALSE


(***************************************************************************)
(* Pure functions of cryptfs_hw.c                                          *)
(***************************************************************************)
\* is_hw_disk_encryption comparing only the literal's length
\* (strncmp(encryption_mode, "aes-xts", 7))
is_hw_disk_encryption_prefix(encryption_mode) ==
    IF ~encryption_mode.null
       /\ strncmp(encryption_mode.mem, LIT_AES_XTS, Len(LIT_AES_XTS) - 1) = 0
    THEN 1 ELSE 0

\* is_hw_disk_encryption(encryption_mode)
is_hw_disk_encryption(encryption_mode) ==
    IF ~encryption_mode.null /\ strcmp(encryption_mode.mem, LIT_AES_XTS) = 0
    THEN 1 ELSE 0

\* property_get(key, value, ""): the length of the value it stored
property_get(value) == strlen(value)

\* is_ice_enabled without the metadata partition workaround
is_ice_enabled_no_metadata(env) ==
    IF property_get(env.bootdevice) # 0
    THEN IF strstr(env.bootdevice, LIT_UFS) # 0
         THEN QTI_ICE_STORAGE_UFS
         ELSE IF strstr(env.bootdevice, LIT_SDHC) # 0
              THEN IF env.icesdcc THEN QTI_ICE_STORAGE_SDCC ELSE 0
              ELSE 0
    ELSE 0

\* is_ice_enabled(), reading the signals of env
is_ice_enabled(env) ==
    IF env.metadata THEN 0
    ELSE IF property_get(env.bootdevice) # 0
         THEN IF strstr(env.bootdevice, LIT_UFS) # 0
              THEN QTI_ICE_STORAGE_UFS
              ELSE IF strstr(env.bootdevice, LIT_SDHC) # 0
                   THEN IF env.icesdcc THEN QTI_ICE_STORAGE_SDCC ELSE 0
                   ELSE 0
         ELSE 0

\* map_usage with the two ICE tags swapped
map_usage_swapped(u, env) ==
    LET st == is_ice_enabled(env) IN
    IF u = CRYPTFS_HW_KM_USAGE_DISK_ENCRYPTION
    THEN IF st = QTI_ICE_STORAGE_UFS
         THEN CRYPTFS_HW_KM_USAGE_SDCC_ICE_DISK_ENCRYPTION
         ELSE IF st = QTI_ICE_STORAGE_SDCC
              THEN CRYPTFS_HW_KM_USAGE_UFS_ICE_DISK_ENCRYPTION
              ELSE u
    ELSE u

\* map_usage(usage), is_ice_enabled() reading the signals of env
map_usage(u, env) ==
    LET st == is_ice_enabled(env) IN
    IF u = CRYPTFS_HW_KM_USAGE_DISK_ENCRYPTION
    THEN IF st = QTI_ICE_STORAGE_UFS
         THEN CRYPTFS_HW_KM_USAGE_UFS_ICE_DISK_ENCRYPTION
         ELSE IF st = QTI_ICE_STORAGE_SDCC
              THEN CRYPTFS_HW_KM_USAGE_SDCC_ICE_DISK_ENCRYPTION
              ELSE u
    ELSE u

\* get_tmp_passwd without the secure_memset before the copy
get_tmp_passwd_no_clear(passwd, malloc_ok, garbage) ==
    IF passwd.null THEN NullBuf
    ELSE IF ~malloc_ok THEN NullBuf
    ELSE LET passwd_len == strnlen(passwd.mem, MAX_PASSWORD_LEN)
         IN  [st |-> "live", bytes |-> memcpy(garbage, passwd.mem, passwd_len)]

\* get_tmp_passwd(passwd); malloc succeeds or not, and hands out memory
\* holding garbage
get_tmp_passwd(passwd, malloc_ok, garbage) ==
    IF passwd.null THEN NullBuf
    ELSE IF ~malloc_ok THEN NullBuf
    ELSE LET cleared == secure_memset(garbage, 0, MAX_PASSWORD_LEN)
             passwd_len == strnlen(passwd.mem, MAX_PASSWORD_LEN)
         IN  [st |-> "live", bytes |-> memcpy(cleared, passwd.mem, passwd_len)]

\* get_keymaster_version(): rc and the module's version come from
\* hw_get_module_by_class
get_keymaster_version(rc, version) == IF rc # 0 THEN rc ELSE version

\* should_use_keymaster asking for a version above 0.3, as its comment says
should_use_keymaster_above(rc, version) ==
    IF get_keymaster_version(rc, version) > KEYMASTER_MODULE_API_VERSION_0_3
    THEN 1 ELSE 0

\* should_use_keymaster()
should_use_keymaster(rc, version) ==
    IF get_keymaster_version(rc, version) = KEYMASTER_MODULE_API_VERSION_0_3
    THEN 0 ELSE 1

\* load_qseecom_library without the test of the memoized flag
load_entry_no_memo(loaded) == "poll"

\* load_qseecom_library, its first lines: the memoized flag decides whether
\* the readiness wait starts or the primitive is called right away
load_entry(loaded) == IF loaded # 0 THEN "prim" ELSE "poll"

\* is_qseecom_up, one iteration: whether the value read ends the wait
is_up(value) == strncmp(value, LIT_TRUE, PROPERTY_VALUE_MAX) = 0

\* is_qseecom_up looping while i <= CRYPTFS_HW_UP_CHECK_COUNT
keep_polling_one_more(n) == n <= CRYPTFS_HW_UP_CHECK_COUNT

\* is_qseecom_up, the loop condition after n failed polls
keep_polling(n) == n < CRYPTFS_HW_UP_CHECK_COUNT

\* load_qseecom_library setting the flag before the wipe lookup is checked
dl_resolve_flag_early(open, s1, s2, s3) ==
    [ opened  |-> open,
      lookups |-> IF ~open THEN 0 ELSE IF ~s1 THEN 1 ELSE IF ~s2 THEN 2 ELSE 3,
      loaded  |-> IF open /\ s1 /\ s2 THEN 1 ELSE 0,
      closed  |-> open /\ ~(s1 /\ s2 /\ s3),
      fail    |-> IF ~open THEN "dlopen"
                  ELSE IF ~s1 THEN "create"
                  ELSE IF ~s2 THEN "update"
                  ELSE IF ~s3 THEN "wipe" ELSE "ok" ]

\* load_qseecom_library without the dlclose on error
dl_resolve_no_close(open, s1, s2, s3) ==
    [ opened  |-> open,
      lookups |-> IF ~open THEN 0 ELSE IF ~s1 THEN 1 ELSE IF ~s2 THEN 2 ELSE 3,
      loaded  |-> IF open /\ s1 /\ s2 /\ s3 THEN 1 ELSE 0,
      closed  |-> FALSE,
      fail    |-> IF ~open THEN "dlopen"
                  ELSE IF ~s1 THEN "create"
                  ELSE IF ~s2 THEN "update"
                  ELSE IF ~s3 THEN "wipe" ELSE "ok" ]

\* load_qseecom_library from dlopen on: open, s1, s2, s3 say whether dlopen
\* and the dlsym of create, update and wipe succeed
dl_resolve(open, s1, s2, s3) ==
    [ opened  |-> open,
      lookups |-> IF ~open THEN 0 ELSE IF ~s1 THEN 1 ELSE IF ~s2 THEN 2 ELSE 3,
      loaded  |-> IF open /\ s1 /\ s2 /\ s3 THEN 1 ELSE 0,
      closed  |-> open /\ ~(s1 /\ s2 /\ s3),
      fail    |-> IF ~open THEN "dlopen"
                  ELSE IF ~s1 THEN "create"
                  ELSE IF ~s2 THEN "update"
                  ELSE IF ~s3 THEN "wipe" ELSE "ok" ]

\* a function pointer after the load attempt: assigned by its dlsym when
\* that ran (NULL on failure), dangling once the handle is closed
ptr_after(old, assigned, ok, closed) ==
    LET v == IF assigned THEN (IF ok THEN "valid" ELSE "unset") ELSE old
    IN  IF closed /\ v = "valid" THEN "dangling" ELSE v

\* the value cryptfs_hw_create_key / _update_key / _wipe_key return when
\* load_qseecom_library returns 0
sentinel(op) ==
    CASE op = "set" -> CRYPTFS_HW_CREATE_KEY_FAILED
      [] op = "update" -> CRYPTFS_HW_UPDATE_KEY_FAILED
      [] op = "clear" -> CRYPTFS_HW_WIPE_KEY_FAILED

\* the pointer cryptfs_hw_create_key / _update_key / _wipe_key call through
primitive(op) ==
    CASE op = "set" -> "qseecom_create_key"
      [] op = "update" -> "qseecom_update_key"
      [] op = "clear" -> "qseecom_wipe_key"

\* secure_memset(buf, 0, MAX_PASSWORD_LEN)
zeroed(buf) == [buf EXCEPT !.bytes = secure_memset(@, 0, MAX_PASSWORD_LEN)]

\* free(buf); free(NULL) does nothing
released(buf) == IF buf.st = "live" THEN [buf EXCEPT !.st = "freed"] ELSE buf

\* set_key after the primitive returned: tmp_currentpasswd is cleared on
\* the update path, tmp_passwd is cleared, both are freed
tail_passwd(op, tp) == released(zeroed(tp))
tail_currentpasswd(op, tc) ==
    released(IF op = "update" THEN zeroed(tc) ELSE tc)

(***************************************************************************)
(* Operations                                                              *)
(***************************************************************************)
ResetObs ==
    /\ polled' = FALSE
    /\ waited' = 0
    /\ saw_true' = FALSE
    /\ dlopens' = 0
    /\ dlsyms' = 0
    /\ dlcloses' = 0
    /\ prims' = <<>>
    /\ attempt' = "none"

\* the running key call returns e
Finish(e) ==
    /\ ret' = e
    /\ pc' = "idle"
    /\ IF call.op \in {"set", "update"}
       THEN /\ tmp_passwd' = tail_passwd(call.op, tmp_passwd)
            /\ tmp_currentpasswd' = tail_currentpasswd(call.op, tmp_currentpasswd)
       ELSE UNCHANGED <<tmp_passwd, tmp_currentpasswd>>

\* set_key up to load_qseecom_library's test of the flag: the mode does not
\* select hardware encryption
set_key_gated(currentpasswd, passwd, enc_mode, operation) ==
    /\ pc = "idle"
    /\ is_hw_disk_encryption(enc_mode) = 0
    /\ call' = [NoCall EXCEPT
                  !.op = IF operation = SET_HW_DISK_ENC_KEY THEN "set" ELSE "update",
                  !.passwd = passwd, !.currentpasswd = currentpasswd,
                  !.enc_mode = enc_mode]
    /\ ResetObs
    /\ tmp_passwd' = NullBuf
    /\ tmp_currentpasswd' = NullBuf
    /\ usage' = 0
    /\ storage_type' = 0
    /\ ret' = -1
    /\ UNCHANGED <<lib, pc, i, failed_before>>

\* set_key: the mode selects hardware encryption, but tmp_passwd is NULL,
\* or tmp_currentpasswd is on an update: no primitive is called
set_key_skipped(currentpasswd, passwd, enc_mode, operation, m1, m2, garbage) ==
    LET tp == get_tmp_passwd(passwd, m1, garbage)
        tc == get_tmp_passwd(currentpasswd, m2, garbage)
    IN  /\ pc = "idle"
        /\ is_hw_disk_encryption(enc_mode) # 0
        /\ ~(tp.st = "live" /\ (operation = UPDATE_HW_DISK_ENC_KEY => tc.st = "live"))
        /\ call' = [NoCall EXCEPT
                      !.op = IF operation = SET_HW_DISK_ENC_KEY THEN "set" ELSE "update",
                      !.passwd = passwd, !.currentpasswd = currentpasswd,
                      !.enc_mode = enc_mode]
        /\ ResetObs
        \* lines 233-235 run only inside if (tmp_passwd)
        /\ tmp_passwd' = IF tp.st = "live" THEN released(zeroed(tp)) ELSE tp
        /\ tmp_currentpasswd' = IF tp.st = "live" THEN released(tc) ELSE tc
        /\ usage' = 0
        /\ storage_type' = 0
        /\ ret' = -1
        /\ UNCHANGED <<lib, pc, i, failed_before>>

\* set_key: both buffers are there; map_usage is evaluated and
\* cryptfs_hw_create_key / cryptfs_hw_update_key entered
set_key_forward(currentpasswd, passwd, enc_mode, operation, garbage, env) ==
    LET tp == get_tmp_passwd(passwd, TRUE, garbage)
        tc == get_tmp_passwd(currentpasswd, TRUE, garbage)
    IN  /\ pc = "idle"
        /\ is_hw_disk_encryption(enc_mode) # 0
        /\ tp.st = "live" /\ (operation = UPDATE_HW_DISK_ENC_KEY => tc.st = "live")
        /\ call' = [NoCall EXCEPT
                      !.op = IF operation = SET_HW_DISK_ENC_KEY THEN "set" ELSE "update",
                      !.passwd = passwd, !.currentpasswd = currentpasswd,
                      !.enc_mode = enc_mode]
        /\ ResetObs
        /\ tmp_passwd' = tp
        /\ tmp_currentpasswd' = tc
        /\ storage_type' = is_ice_enabled(env)
        /\ usage' = map_usage(CRYPTFS_HW_KM_USAGE_DISK_ENCRYPTION, env)
        /\ pc' = load_entry(loaded_library)
        /\ i' = 0
        /\ ret' = 0
        /\ UNCHANGED <<lib, failed_before>>

\* set_hw_device_encryption_key(passwd, enc_mode)
set_hw_device_encryption_key ==
    \E passwd \in Passwords, enc_mode \in KeyModes :
        \/ set_key_gated(NULL, passwd, enc_mode, SET_HW_DISK_ENC_KEY)
        \/ \E m1 \in BOOLEAN, g \in Garbage :
             set_key_skipped(NULL, passwd, enc_mode, SET_HW_DISK_ENC_KEY, m1, TRUE, g)
        \/ \E g \in Garbage, env \in KeyEnvs :
             set_key_forward(NULL, passwd, enc_mode, SET_HW_DISK_ENC_KEY, g, env)

\* update_hw_device_encryption_key(oldpw, newpw, enc_mode)
update_hw_device_encryption_key ==
    \E oldpw \in OldPasswords, newpw \in Passwords, enc_mode \in KeyModes :
        \/ set_key_gated(oldpw, newpw, enc_mode, UPDATE_HW_DISK_ENC_KEY)
        \/ \E m1 \in BOOLEAN, m2 \in BOOLEAN, g \in Garbage :
             set_key_skipped(oldpw, newpw, enc_mode, UPDATE_HW_DISK_ENC_KEY, m1, m2, g)
        \/ \E g \in Garbage, env \in KeyEnvs :
             set_key_forward(oldpw, newpw, enc_mode, UPDATE_HW_DISK_ENC_KEY, g, env)

\* clear_hw_device_encryption_key(): map_usage is evaluated and
\* cryptfs_hw_wipe_key entered
clear_hw_device_encryption_key ==
    \E env \in KeyEnvs :
        /\ pc = "idle"
        /\ call' = [NoCall EXCEPT !.op = "clear"]
        /\ ResetObs
        /\ tmp_passwd' = NullBuf
        /\ tmp_currentpasswd' = NullBuf
        /\ storage_type' = is_ice_enabled(env)
        /\ usage' = map_usage(CRYPTFS_HW_KM_USAGE_DISK_ENCRYPTION, env)
        /\ pc' = load_entry(loaded_library)
        /\ i' = 0
        /\ ret' = 0
        /\ UNCHANGED <<lib, failed_before>>

\* is_qseecom_up: one iteration of the loop, reading sys.keymaster.loaded
is_qseecom_up ==
    \E value \in ReadyValues :
        /\ pc = "poll"
        /\ polled' = TRUE
        /\ IF is_up(value)
           THEN \* return 1
                /\ saw_true' = TRUE
                /\ pc' = "dlopen"
                /\ i' = 0
                /\ UNCHANGED <<ret, tmp_passwd, tmp_currentpasswd, attempt,
                               failed_before, waited>>
           ELSE /\ UNCHANGED saw_true
                /\ IF keep_polling(i + 1)
                   THEN /\ i' = i + 1
                        /\ UNCHANGED <<pc, ret, tmp_passwd, tmp_currentpasswd,
                                       attempt, failed_before, waited>>
                   ELSE \* return 0, and load_qseecom_library returns 0
                        /\ i' = 0
                        /\ waited' = i + 1
                        /\ attempt' = "timeout"
                        /\ failed_before' = TRUE
                        /\ Finish(sentinel(call.op))
        /\ UNCHANGED <<lib, call, usage, storage_type, dlopens, dlsyms,
                       dlcloses, prims>>

\* load_qseecom_library after is_qseecom_up returned 1: dlopen, the three
\* dlsym, the flag, dlclose on error
load_qseecom_library ==
    \E open \in BOOLEAN, s1 \in BOOLEAN, s2 \in BOOLEAN, s3 \in BOOLEAN :
        LET r == dl_resolve(open, s1, s2, s3) IN
        /\ pc = "dlopen"
        /\ dlopens' = dlopens + 1
        /\ dlsyms' = dlsyms + r.lookups
        /\ dlcloses' = dlcloses + (IF r.closed THEN 1 ELSE 0)
        /\ handles' = handles + (IF r.opened /\ ~r.closed THEN 1 ELSE 0)
        /\ qseecom_create_key' =
             ptr_after(qseecom_create_key, r.lookups >= 1, s1, r.closed)
        /\ qseecom_update_key' =
             ptr_after(qseecom_update_key, r.lookups >= 2, s2, r.closed)
        /\ qseecom_wipe_key' =
             ptr_after(qseecom_wipe_key, r.lookups >= 3, s3, r.closed)
        /\ loaded_library' = IF r.loaded = 1 THEN 1 ELSE loaded_library
        /\ attempt' = r.fail
        /\ IF loaded_library' # 0
           THEN /\ pc' = "prim"
                /\ UNCHANGED <<ret, tmp_passwd, tmp_currentpasswd, failed_before>>
           ELSE /\ failed_before' = TRUE
                /\ Finish(sentinel(call.op))
        /\ UNCHANGED <<i, call, usage, storage_type, polled, waited, saw_true,
                       prims>>

\* cryptfs_hw_create_key / _update_key / _wipe_key: load_qseecom_library
\* returned nonzero, the primitive is called through its pointer and its
\* status returned
qseecom_call ==
    \E status \in Statuses :
        /\ pc = "prim"
        /\ prims' = Append(prims,
             [ fn |-> primitive(call.op),
               usage |-> usage,
               hash32 |-> tmp_passwd.bytes,
               current_hash32 |-> tmp_currentpasswd.bytes,
               ptr |-> CASE call.op = "set" -> qseecom_create_key
                         [] call.op = "update" -> qseecom_update_key
                         [] call.op = "clear" -> qseecom_wipe_key,
               loaded |-> loaded_library,
               status |-> status ])
        /\ Finish(status)
        /\ UNCHANGED <<lib, i, call, usage, storage_type, polled, waited,
                       saw_true, dlopens, dlsyms, dlcloses, attempt,
                       failed_before>>

\* the calls that touch no state of the library
Query(c, r) ==
    /\ pc = "idle"
    /\ call' = c
    /\ ret' = r
    /\ ResetObs
    /\ tmp_passwd' = NullBuf
    /\ tmp_currentpasswd' = NullBuf
    /\ usage' = 0
    /\ storage_type' = 0
    /\ UNCHANGED <<lib, pc, i, failed_before>>

\* is_hw_disk_encryption(encryption_mode), called by the encryption manager
is_hw_disk_encryption_call ==
    \E m \in Modes :
        Query([NoCall EXCEPT !.op = "is_hw", !.enc_mode = m],
              is_hw_disk_encryption(m))

\* is_ice_enabled(), called by the encryption manager
is_ice_enabled_call ==
    \E env \in Envs :
        Query([NoCall EXCEPT !.op = "is_ice", !.env = env], is_ice_enabled(env))

\* should_use_keymaster(); a failed lookup leaves no module to read
should_use_keymaster_call ==
    \E rc \in ModuleRcs, version \in ApiVersions :
        /\ Query([NoCall EXCEPT !.op = "should_km", !.rc = rc,
                                !.version = IF rc = 0 THEN version ELSE 0],
                 should_use_keymaster(rc, version))

Next ==
    \/ set_hw_device_encryption_key
    \/ update_hw_device_encryption_key
    \/ clear_hw_device_encryption_key
    \/ is_qseecom_up
    \/ load_qseecom_library
    \/ qseecom_call
    \/ is_hw_disk_encryption_call
    \/ is_ice_enabled_call
    \/ should_use_keymaster_call

Spec == Init /\ [][Next]_vars

(***************************************************************************)
(* Vocabulary of the properties                                            *)
(***************************************************************************)
\* the C string a pointer designates: the bytes before the first 0
CStr(p) ==
    LET n == CHOOSE k \in 1..Len(p.mem) :
                 p.mem[k] = 0 /\ \A j \in 1..(k - 1) : p.mem[j] # 0
    IN  SubSeq(p.mem, 1, n - 1)

\* a literal without its terminator
Text(lit) == SubSeq(lit, 1, Len(lit) - 1)

\* s holds t as a substring
Contains(s, t) ==
    \E k \in 1..(Len(s) - Len(t) + 1) : SubSeq(s, k, k + Len(t) - 1) = t

IsAesXts(mode) == ~mode.null /\ CStr(mode) = Text(LIT_AES_XTS)

Returned == pc = "idle"
KeyCall == call.op \in {"set", "update"}
LoadFailures == {"timeout", "dlopen", "create", "update", "wipe"}

\* the 32 bytes a password is to be handed over as
Padded(p) ==
    [j \in 1..MAX_PASSWORD_LEN |-> IF j <= Len(CStr(p)) THEN CStr(p)[j] ELSE 0]

\* the usage tag of disk encryption on a backend
BackendTag(st) ==
    CASE st = QTI_ICE_STORAGE_UFS -> CRYPTFS_HW_KM_USAGE_UFS_ICE_DISK_ENCRYPTION
      [] st = QTI_ICE_STORAGE_SDCC -> CRYPTFS_HW_KM_USAGE_SDCC_ICE_DISK_ENCRYPTION
      [] OTHER -> CRYPTFS_HW_KM_USAGE_DISK_ENCRYPTION

(***************************************************************************)
(* C1: when set_hw_device_encryption_key or update_hw_device_encryption_key*)
(* has returned, on any exit path, every password buffer the call          *)
(* allocated is zero-filled and released.                                  *)
(***************************************************************************)
C1_BuffersZeroedAndReleased ==
    (Returned /\ KeyCall) =>
        \A b \in {tmp_passwd, tmp_currentpasswd} :
            b.st # "null" =>
                b.st = "freed" /\ b.bytes = Zeros(MAX_PASSWORD_LEN)

(***************************************************************************)
(* C2: the loaded flag is set only if create, update and wipe were all     *)
(* resolved in one load attempt (all three pointers valid, from the one    *)
(* handle that is open); a primitive is invoked only while the flag is     *)
(* set, and a call whose load attempt failed returns its sentinel without  *)
(* invoking one.                                                           *)
(***************************************************************************)
C2_LoadedOnlyWhenAllResolved ==
    /\ loaded_library \in {0, 1}
    /\ loaded_library = 1 =>
          /\ qseecom_create_key = "valid"
          /\ qseecom_update_key = "valid"
          /\ qseecom_wipe_key = "valid"
          /\ handles = 1
    /\ pc = "prim" => loaded_library = 1
    /\ \A k \in 1..Len(prims) : prims[k].loaded = 1 /\ prims[k].ptr = "valid"
    /\ (Returned /\ attempt \in LoadFailures) =>
          prims = <<>> /\ ret = sentinel(call.op)

C2_Witness ==
    /\ Returned
    /\ failed_before
    /\ attempt = "ok"
    /\ loaded_library = 1
    /\ Len(prims) = 1

(***************************************************************************)
(* C3: once loaded, the flag is never reset, the handle never closed and   *)
(* the pointers never change; every later key operation is forwarded to    *)
(* its primitive without a read of the readiness property, a dlopen or a   *)
(* dlsym.                                                                  *)
(***************************************************************************)
C3_Step ==
    loaded_library = 1 =>
        /\ loaded_library' = 1
        /\ handles' = handles
        /\ UNCHANGED <<qseecom_create_key, qseecom_update_key, qseecom_wipe_key>>
        /\ pc' \notin {"poll", "dlopen"}
        /\ pc = "idle" =>
              /\ ~polled' /\ dlopens' = 0 /\ dlsyms' = 0 /\ dlcloses' = 0
              /\ pc' # "idle" => pc' = "prim"

C3_LoadedIsPermanent == [][C3_Step]_vars

C3_Witness ==
    /\ Returned
    /\ call.op = "update"
    /\ loaded_library = 1
    /\ ~polled /\ dlopens = 0 /\ dlsyms = 0
    /\ Len(prims) = 1

(***************************************************************************)
(* C4: a failed load attempt is not remembered.  After a key operation     *)
(* whose load attempt failed (the wait timed out after 100 polls, or       *)
(* dlopen or one of the dlsym failed, the handle then being closed and the *)
(* later lookups not attempted) the library is still unloaded, and the     *)
(* next key operation that passes its gate starts the wait at poll 0 and   *)
(* polls up to 100 times.                                                  *)
(***************************************************************************)
C4_AfterFailure ==
    (Returned /\ attempt \in LoadFailures) =>
        /\ loaded_library = 0
        /\ handles = 0
        /\ attempt = "timeout" =>
              waited = CRYPTFS_HW_UP_CHECK_COUNT /\ dlopens = 0 /\ dlsyms = 0
                 /\ dlcloses = 0
        /\ attempt = "dlopen" => dlopens = 1 /\ dlsyms = 0 /\ dlcloses = 0
        /\ attempt = "create" => dlopens = 1 /\ dlsyms = 1 /\ dlcloses = 1
        /\ attempt = "update" => dlopens = 1 /\ dlsyms = 2 /\ dlcloses = 1
        /\ attempt = "wipe" => dlopens = 1 /\ dlsyms = 3 /\ dlcloses = 1

C4_Retry ==
    /\ (pc = "idle" /\ loaded_library = 0 /\ pc' # "idle") =>
          pc' = "poll" /\ i' = 0
    /\ (pc = "poll" /\ pc' = "poll") =>
          i' = i + 1 /\ i' < CRYPTFS_HW_UP_CHECK_COUNT
    /\ (pc = "poll" /\ attempt' = "timeout") =>
          i = CRYPTFS_HW_UP_CHECK_COUNT - 1

C4_FailedLoadNotRemembered == [](C4_AfterFailure) /\ [][C4_Retry]_vars

\* a key operation reaches the loaded state after an earlier one failed
C4_Witness ==
    /\ failed_before
    /\ attempt = "ok"
    /\ polled
    /\ loaded_library = 1

(***************************************************************************)
(* C5: when the readiness property does not read "true" within 100 polls,  *)
(* set_hw_device_encryption_key returns CRYPTFS_HW_CREATE_KEY_FAILED (-7)  *)
(* and no primitive is invoked during the call.                            *)
(***************************************************************************)
C5_TimeoutReturnsCreateFailed ==
    (call.op = "set" /\ polled /\ ~saw_true) =>
        /\ prims = <<>>
        /\ Returned =>
              /\ waited = CRYPTFS_HW_UP_CHECK_COUNT
              /\ ret = CRYPTFS_HW_CREATE_KEY_FAILED

C5_Witness ==
    /\ Returned
    /\ call.op = "set"
    /\ polled /\ ~saw_true
    /\ waited = CRYPTFS_HW_UP_CHECK_COUNT

(***************************************************************************)
(* C6: is_hw_disk_encryption(mode) is 1 exactly when mode is the string    *)
(* "aes-xts"; for any other mode, NULL included, a set or update call      *)
(* returns -1 at once, having read the readiness property zero times,      *)
(* attempted no load, invoked no primitive and changed no load state.      *)
(***************************************************************************)
C6_State ==
    /\ call.op = "is_hw" => (ret = 1 <=> IsAesXts(call.enc_mode))
    /\ call.op = "is_hw" => ret \in {0, 1}
    /\ (KeyCall /\ ~IsAesXts(call.enc_mode)) =>
          /\ Returned
          /\ ret = -1
          /\ ~polled /\ dlopens = 0 /\ dlsyms = 0 /\ attempt = "none"
          /\ prims = <<>>

C6_Step ==
    (pc = "idle" /\ call'.op \in {"set", "update"} /\ ~IsAesXts(call'.enc_mode)) =>
        UNCHANGED lib

C6_OnlyAesXtsIsHardware == [](C6_State) /\ [][C6_Step]_vars

C6_Witness ==
    /\ call.op = "update"
    /\ ~call.enc_mode.null
    /\ Len(CStr(call.enc_mode)) > Len(Text(LIT_AES_XTS))
    /\ ~call.passwd.null /\ ~call.currentpasswd.null
    /\ loaded_library = 1
    /\ ret = -1

(***************************************************************************)
(* C7: clear_hw_device_encryption_key takes no mode.  When the library is  *)
(* or becomes loaded it invokes the wipe primitive exactly once, with the  *)
(* disk-encryption usage rewritten for the backend (UFS-ICE for backend 1, *)
(* SDCC-ICE for backend 2, the generic tag otherwise), and returns the     *)
(* primitive's status; when the load fails it returns                      *)
(* CRYPTFS_HW_WIPE_KEY_FAILED (-8) and invokes no primitive.               *)
(***************************************************************************)
C7_ClearForwardsToWipe ==
    (Returned /\ call.op = "clear") =>
        IF loaded_library = 1
        THEN /\ Len(prims) = 1
             /\ prims[1].fn = "qseecom_wipe_key"
             /\ prims[1].usage = BackendTag(storage_type)
             /\ ret = prims[1].status
        ELSE /\ prims = <<>>
             /\ ret = CRYPTFS_HW_WIPE_KEY_FAILED
             /\ attempt \in LoadFailures

C7_Witness ==
    /\ Returned
    /\ call.op = "clear"
    /\ storage_type = QTI_ICE_STORAGE_SDCC
    /\ Len(prims) = 1
    /\ prims[1].usage = CRYPTFS_HW_KM_USAGE_SDCC_ICE_DISK_ENCRYPTION
    /\ ret = 2

(***************************************************************************)
(* C8: is_ice_enabled returns 0 whenever the metadata partition exists;    *)
(* otherwise 1 when the boot-device property contains "ufs" (no device     *)
(* node check); otherwise 2 when it contains "sdhc" and /dev/icesdcc       *)
(* exists; otherwise 0; whatever was called before.                        *)
(***************************************************************************)
C8_IceBackend ==
    call.op = "is_ice" =>
        LET prop == CStr(Ptr(call.env.bootdevice)) IN
        ret = IF call.env.metadata THEN 0
              ELSE IF Contains(prop, Text(LIT_UFS)) THEN 1
              ELSE IF Contains(prop, Text(LIT_SDHC)) /\ call.env.icesdcc THEN 2
              ELSE 0

C8_Witness ==
    /\ call.op = "is_ice"
    /\ ret = QTI_ICE_STORAGE_SDCC
    /\ Len(call.env.bootdevice) > Len(LIT_SDHC)
    /\ loaded_library = 1

C10_PaddedPassword ==
    /\ tmp_passwd.st = "live" => tmp_passwd.bytes = Padded(call.passwd)
    /\ tmp_currentpasswd.st = "live" =>
          tmp_currentpasswd.bytes = Padded(call.currentpasswd)
    /\ \A k \in 1..Len(prims) :
          /\ prims[k].fn \in {"qseecom_create_key", "qseecom_update_key"} =>
                /\ Len(prims[k].hash32) = MAX_PASSWORD_LEN
                /\ prims[k].hash32 = Padded(call.passwd)
          /\ prims[k].fn = "qseecom_update_key" =>
                /\ Len(prims[k].current_hash32) = MAX_PASSWORD_LEN
                /\ prims[k].current_hash32 = Padded(call.currentpasswd)

C10_Witness ==
    /\ Len(prims) = 1
    /\ prims[1].fn = "qseecom_update_key"
    /\ Len(CStr(call.passwd)) > MAX_PASSWORD_LEN
    /\ Len(CStr(call.currentpasswd)) < MAX_PASSWORD_LEN
    /\ prims[1].hash32[MAX_PASSWORD_LEN] # 0
    /\ prims[1].current_hash32[MAX_PASSWORD_LEN] = 0

=============================================================================
